---- MODULE Spec2Model ----
(***************************************************************************)
(* Model of stars.py (github-stars-organizer): one run of main() is        *)
(* download_starred_repos -> remove_unstarred_repos -> batches of          *)
(* organize_repos_with_claude -> save -> update_github_lists ->            *)
(* update_readme.                                                          *)
(*                                                                         *)
(* Conventions.  A Python dict is a TLA+ function; its iteration order is  *)
(* the ascending order of the repository identifiers (catalog: the order   *)
(* of the sequence categories).  A string that the program inspects        *)
(* character by character (category names, file paths) is a sequence of    *)
(* one-character strings.  A repository record is determined by its        *)
(* identifier (FullName), so the snapshot is the set of its keys.          *)
(***************************************************************************)
EXTENDS Integers, Sequences, FiniteSets, TLC

\* ------------------------------------------------------------------ bounds
MaxRepos == 3      \* repository identifiers are 1..MaxRepos
MaxRows == 1       \* data rows in one model response (after the header)
MaxFailAt == 1     \* the hosting service fails at request 1..MaxFailAt, or never
MaxRuns == 2       \* runs of main() one after the other
MaxFreshRepos == 2 \* the repositories of the platform in the run-after-run model

Repos == 1..MaxRepos

\* ------------------------------------------------------------- characters
UpperCase == <<"A", "B", "W", "R", "E", "D", "M", "O">>
LowerCase == <<"a", "b", "w", "r", "e", "d", "m", "o">>

Range(s) == {s[k] : k \in DOMAIN s}

\* str.lower() on one character
Lower(c) ==
    IF \E k \in DOMAIN UpperCase : UpperCase[k] = c
    THEN LowerCase[CHOOSE k \in DOMAIN UpperCase : UpperCase[k] = c]
    ELSE c

\* the characters re.sub(r'[^\w\-_\. ]', '', name) keeps
KeptChars == Range(UpperCase) \cup Range(LowerCase) \cup {"t", "h", "z", "n"}
             \cup {"-", "_", ".", " "}

RECURSIVE LStrip(_)
LStrip(s) == IF s # <<>> /\ Head(s) = " " THEN LStrip(Tail(s)) ELSE s

RECURSIVE RStrip(_)
RStrip(s) ==
    IF s # <<>> /\ s[Len(s)] = " " THEN RStrip(SubSeq(s, 1, Len(s) - 1)) ELSE s

\* re.sub(r'[^\w\-_\. ]', '', name)
Sub(name) == SelectSeq(name, LAMBDA c : c \in KeptChars)

\* str.strip()
Strip(s) == RStrip(LStrip(s))

\* str.replace(' ', '_')
Replace(s) == [k \in DOMAIN s |-> IF s[k] = " " THEN "_" ELSE s[k]]

\* str.lower()
LowerAll(s) == [k \in DOMAIN s |-> Lower(s[k])]

clean_filename(name) == LowerAll(Replace(Strip(Sub(name))))

MdExt == <<".", "m", "d">>

\* f"{clean_filename(category)}.md"
FileName(category) == clean_filename(category) \o MdExt

\* path.endswith('.md')
EndsWithMd(path) ==
    Len(path) >= 3 /\ SubSeq(path, Len(path) - 2, Len(path)) = MdExt

ReadmePath == <<"R", "E", "A", "D", "M", "E">> \o MdExt

\* ------------------------------------------------------------ the catalog
CatWeb == <<"W", "e", "b">>                \* "Web"   -> web.md
CatAB == <<"A", " ", "B">>                 \* "A B"   -> a_b.md
CatAb == <<"a", "_", "b", "!">>            \* "a_b!"  -> a_b.md
Other == <<"O", "t", "h", "e", "r">>       \* the reserved literal "Other"
Bogus == <<"?">>                           \* a name that is in no catalog

\* categories.json, as the sequence of its keys
Catalogs == {<<CatWeb, CatAB>>, <<CatAB, CatAb>>}

\* ------------------------------------------------- the remote repository
\* The state of one call on the remote repository: the files (path ->
\* content), the function's locals, and what the call has done so far.
\* failAt numbers the remote request at which the hosting service itself
\* fails (0: it never does).
NewCall(files, failAt) ==
    [remote |-> files, existing |-> <<>>, changes_made |-> FALSE,
     local |-> <<>>, calls |-> 0, failAt |-> failAt, raised |-> FALSE,
     service_failed |-> FALSE, mutations |-> 0]

\* One request; ok is what the service requires of it.  A request the
\* service rejects, or fails on, raises GithubException; after a raise the
\* rest of the try block is skipped.
RemoteCall(st, ok) ==
    IF st.raised THEN st
    ELSE IF st.calls + 1 = st.failAt
         THEN [st EXCEPT !.calls = @ + 1, !.raised = TRUE, !.service_failed = TRUE]
    ELSE IF ~ok THEN [st EXCEPT !.calls = @ + 1, !.raised = TRUE]
    ELSE [st EXCEPT !.calls = @ + 1]

Without(files, path) == [p \in DOMAIN files \ {path} |-> files[p]]

With(files, path, content) ==
    [p \in DOMAIN files \cup {path} |-> IF p = path THEN content ELSE files[p]]

\* repo.get_contents(path): 404 when the file does not exist
get_contents(st, path) == RemoteCall(st, path \in DOMAIN st.remote)

\* how a request that went through changes the files
Removed(s, path) ==
    IF s.raised THEN s
    ELSE [s EXCEPT !.remote = Without(@, path), !.mutations = @ + 1]

Written(s, path, content) ==
    IF s.raised THEN s
    ELSE [s EXCEPT !.remote = With(@, path, content), !.mutations = @ + 1]

\* repo.delete_file(path, message, sha)
delete_file(st, path) == Removed(RemoteCall(st, path \in DOMAIN st.remote), path)

\* repo.update_file(path, message, content, sha)
update_file(st, path, content) ==
    Written(RemoteCall(st, path \in DOMAIN st.remote), path, content)

\* repo.create_file(path, message, content): 422 when the file exists
create_file(st, path, content) ==
    Written(RemoteCall(st, path \notin DOMAIN st.remote), path, content)

\* ----------------------------------------------------- update_github_lists
\* category_repos[category]: the repositories of one category, in the
\* mapping's iteration order, once per occurrence of the category in a list
Repeat(hits, k) == [n \in DOMAIN hits |-> k]

RECURSIVE CategoryRepos(_, _, _)
CategoryRepos(category, mapping, k) ==
    IF k > MaxRepos THEN <<>>
    ELSE (IF k \in DOMAIN mapping
          THEN Repeat(SelectSeq(mapping[k], LAMBDA c : c = category), k)
          ELSE <<>>) \o CategoryRepos(category, mapping, k + 1)

\* the rendered document: heading and description of the category, then
\* one section per repository of the list
Render(category, repos) == [category |-> category, repos |-> repos]

\* list.remove(x): drops the first occurrence
First(s, x) == CHOOSE n \in DOMAIN s : s[n] = x /\ \A m \in 1..(n - 1) : s[m] # x

Drop(s, k) == SubSeq(s, 1, k - 1) \o SubSeq(s, k + 1, Len(s))

RemoveFirst(s, x) == Drop(s, First(s, x))

\* changes_made = True, reached only when the request before it went through
Changed(s) == IF s.raised THEN s ELSE [s EXCEPT !.changes_made = TRUE]

\* lines 169-173
DeleteIfListed(st, file_name) ==
    IF file_name \in Range(st.existing)
    THEN Changed(delete_file(get_contents(st, file_name), file_name))
    ELSE st

\* lines 193-196
UpdateIfDiffers(s, file_name, content) ==
    IF s.raised THEN s
    ELSE IF s.remote[file_name] # content
    THEN Changed(update_file(s, file_name, content))
    ELSE s

\* line 197
Revisited(s, file_name) ==
    IF s.raised THEN s ELSE [s EXCEPT !.existing = RemoveFirst(@, file_name)]

\* lines 187-201
PublishDocument(st, file_name, content) ==
    IF file_name \in Range(st.existing)
    THEN Revisited(UpdateIfDiffers(get_contents(st, file_name), file_name, content),
                   file_name)
    ELSE Changed(create_file(st, file_name, content))

WriteLocal(st, file_name, content) ==
    [st EXCEPT !.local = With(@, file_name, content)]

\* the body of the loop over category_repos.items(), lines 164-203
ProcessCategory(st, category, repos, starred) ==
    IF st.raised THEN st
    ELSE IF repos = <<>> THEN DeleteIfListed(st, FileName(category))
    ELSE IF \E k \in DOMAIN repos : repos[k] \notin starred
    THEN [st EXCEPT !.raised = TRUE]          \* KeyError at starred_repos[...]
    ELSE PublishDocument(WriteLocal(st, FileName(category), Render(category, repos)),
                         FileName(category), Render(category, repos))

RECURSIVE CategoryLoop(_, _, _, _, _)
CategoryLoop(st, cats, k, mapping, starred) ==
    IF k > Len(cats) THEN st
    ELSE CategoryLoop(
             ProcessCategory(st, cats[k], CategoryRepos(cats[k], mapping, 1), starred),
             cats, k + 1, mapping, starred)

\* the loop over what is left of existing_files, lines 207-212
RECURSIVE StaleLoop(_, _, _)
StaleLoop(st, files, k) ==
    IF k > Len(files) THEN st
    ELSE StaleLoop(Changed(delete_file(get_contents(st, files[k]), files[k])),
                   files, k + 1)

DeleteStale(st) == StaleLoop(st, st.existing, 1)

\* line 155
Listed(s, listing) ==
    IF s.raised THEN s
    ELSE [s EXCEPT !.existing =
             SelectSeq(listing, LAMBDA p : EndsWithMd(p) /\ p # ReadmePath)]

\* what the call leaves behind, and what it returns (lines 214-221)
Returned(s) ==
    [remote |-> s.remote, local |-> s.local, raised |-> s.raised,
     service_failed |-> s.service_failed, mutations |-> s.mutations,
     ret |-> IF s.raised THEN FALSE ELSE s.changes_made]

\* listing: the top-level files in the order repo.get_contents("") gives them
update_github_lists(files, cats, starred, mapping, listing, failAt) ==
    Returned(DeleteStale(CategoryLoop(
        Listed(RemoteCall(RemoteCall(NewCall(files, failAt), TRUE), TRUE), listing),
        cats, 1, mapping, starred)))

\* the orders in which a listing can present the files
Listings(files) ==
    {s \in [1..Cardinality(DOMAIN files) -> DOMAIN files] :
        \A a, b \in DOMAIN s : a # b => s[a] # s[b]}

\* ------------------------------------------------------------ update_readme
\* the lists of the mapping one after the other, in iteration order
RECURSIVE Flat(_, _)
Flat(mapping, k) ==
    IF k > MaxRepos THEN <<>>
    ELSE (IF k \in DOMAIN mapping THEN mapping[k] ELSE <<>>) \o Flat(mapping, k + 1)

Count(s, x) == Cardinality({n \in DOMAIN s : s[n] = x})

NotAvailable == <<"N", "/", "A">>

\* max(category_counts, key=category_counts.get): the first key, in
\* insertion order, whose count is the largest
MostCommon(all) ==
    IF all = <<>> THEN NotAvailable
    ELSE all[CHOOSE n \in DOMAIN all :
                /\ \A m \in DOMAIN all : Count(all, all[m]) <= Count(all, all[n])
                /\ \A m \in 1..(n - 1) : Count(all, all[m]) < Count(all, all[n])]

get_most_common_category(mapping) == MostCommon(Flat(mapping, 1))

\* the first num repositories in descending order of FullName
Largest(S) == CHOOSE r \in S : \A q \in S : q <= r

RECURSIVE get_recently_added(_, _)
get_recently_added(starred, num) ==
    IF starred = {} \/ num = 0 THEN <<>>
    ELSE <<Largest(starred)>>
             \o get_recently_added(starred \ {Largest(starred)}, num - 1)

RecentCount == 5

\* the f-string of update_readme; the timestamp is left out: nothing ever
\* compares the index document with an earlier one
ReadmeContent(starred, mapping) ==
    [total_starred |-> Cardinality(starred),
     total_categories |-> Cardinality(Range(Flat(mapping, 1))),
     most_common |-> get_most_common_category(mapping),
     recently_added |-> get_recently_added(starred, RecentCount)]

\* lines 260-266: update the index, or create it when get_contents raised
WriteIndex(s, content) ==
    IF s.raised
    THEN create_file([s EXCEPT !.raised = FALSE], ReadmePath, content)
    ELSE update_file(s, ReadmePath, content)

\* lines 253-266, skipped when g.get_repo raised
SaveAndWriteIndex(s, content) ==
    IF s.raised THEN s
    ELSE WriteIndex(get_contents(WriteLocal(s, ReadmePath, content), ReadmePath),
                    content)

Left(s) ==
    [remote |-> s.remote, local |-> s.local, raised |-> s.raised,
     service_failed |-> s.service_failed, mutations |-> s.mutations]

update_readme(files, starred, mapping, failAt) ==
    Left(SaveAndWriteIndex(RemoteCall(NewCall(files, failAt), TRUE),
                           ReadmeContent(starred, mapping)))

\* --------------------------------------------------- remove_unstarred_repos
\* remove_unstarred_repos with the set difference the wrong way round
remove_unstarred_repos_reversed(starred, mapping) ==
    [mapping |-> [k \in DOMAIN mapping \ (starred \ DOMAIN mapping) |-> mapping[k]],
     unstarred_repos |-> starred \ DOMAIN mapping]

\* the mapping after the deletions, and the set the returned list is made of
remove_unstarred_repos(starred, mapping) ==
    [mapping |-> [k \in DOMAIN mapping \ (DOMAIN mapping \ starred) |-> mapping[k]],
     unstarred_repos |-> DOMAIN mapping \ starred]

\* list(a_set): the elements in some order, each once
ListsOf(S) ==
    {s \in [1..Cardinality(S) -> S] : \A a, b \in DOMAIN s : a # b => s[a] # s[b]}

\* ----------------------------------------------- organize_repos_with_claude
\* the body of the loop over the rows of the response
\* lines 120-122 with the assignment of "Other" forgotten
Uncoerced(category, cats) == category

\* lines 120-122
Coerced(category, cats) ==
    IF category \notin Range(cats) /\ category # Other THEN Other ELSE category

\* lines 127-129
Appended(acc, repo_full_name, category) ==
    IF repo_full_name \in DOMAIN acc
    THEN [acc EXCEPT ![repo_full_name] = Append(@, category)]
    ELSE [k \in DOMAIN acc \cup {repo_full_name} |->
             IF k = repo_full_name THEN <<category>> ELSE acc[k]]

ParseRow(acc, row, cats) ==
    IF Len(row) # 2 THEN acc
    ELSE Appended(acc, row[1], Coerced(row[2], cats))

RECURSIVE ParseRows(_, _, _)
ParseRows(acc, rows, cats) ==
    IF rows = <<>> THEN acc
    ELSE ParseRows(ParseRow(acc, Head(rows), cats), Tail(rows), cats)

\* reply.ok: the request returned; reply.rows: the rows csv.reader yields
\* from the text, the header first.  An API error, and next() on a reply
\* without any row, end in the except clauses.
organize_repos_with_claude(reply, cats) ==
    IF ~reply.ok \/ reply.rows = <<>> THEN <<>>
    ELSE ParseRows(<<>>, Tail(reply.rows), cats)

\* lines 116 and 121: the warnings of one call
InvalidRow(row) == Len(row) # 2
InvalidCategory(row, cats) ==
    Len(row) = 2 /\ row[2] \notin Range(cats) /\ row[2] # Other

Logged(reply, cats) ==
    IF ~reply.ok \/ reply.rows = <<>> THEN {}
    ELSE (IF \E n \in 2..Len(reply.rows) : InvalidRow(reply.rows[n])
          THEN {"invalid_row"} ELSE {})
         \cup (IF \E n \in 2..Len(reply.rows) : InvalidCategory(reply.rows[n], cats)
               THEN {"invalid_category"} ELSE {})

HeaderRow == <<"Repository FullName", "Category">>

\* names: the repositories a reply can name
DataRows(names, cats) ==
    {<<r, c>> : r \in names, c \in Range(cats) \cup {Other, Bogus}}
        \cup {<<1, Other, Other>>}

RECURSIVE RowSeqs(_, _)
RowSeqs(rows, n) ==
    IF n = 0 THEN {<<>>}
    ELSE RowSeqs(rows, n - 1)
             \cup {Append(s, r) : s \in RowSeqs(rows, n - 1), r \in rows}

Replies(names, cats) ==
    {[ok |-> FALSE, rows |-> <<>>], [ok |-> TRUE, rows |-> <<>>]}
        \cup {[ok |-> TRUE, rows |-> <<HeaderRow>> \o body] :
                 body \in RowSeqs(DataRows(names, cats), MaxRows)}

\* -------------------------------------------------------------------- state
VARIABLES
    pc,                      \* where main() is
    runs,                    \* the number of this run
    github_token,            \* TRUE: GITHUB_TOKEN is set
    anthropic_api_key,       \* TRUE: ANTHROPIC_API_KEY is set
    platform,                \* the repositories that exist on the platform
    github_stars,            \* what the user has starred there
    categories,              \* categories.json
    mapping_file,            \* repo_category_mapping.json
    starred_file,            \* starred_repos.json
    remote,                  \* the top-level files of GITHUB_REPO
    starred_repos,           \* locals of main()
    repo_category_mapping,
    removed_repos,
    repos_list,
    i,
    batch,
    new_mappings,
    warnings,                \* what the last classifier call logged as a warning
    changes_made,
    model_calls,             \* the batches handed to the classifier in this run
    ugl,                     \* the last call of update_github_lists
    ugl_before,              \* the call of update_github_lists before that
    events,                  \* what this run has done so far
    run_start,               \* the persisted files as the run found them
    at_failure               \* the run's merged assignments at its first failed batch

persisted == <<mapping_file, starred_file, remote>>
environment == <<github_token, anthropic_api_key, platform, github_stars, categories>>
locals == <<starred_repos, repo_category_mapping, removed_repos, repos_list, i,
            batch, new_mappings, warnings, changes_made>>
history == <<model_calls, ugl, ugl_before, events, run_start, at_failure>>
vars == <<pc, runs, persisted, environment, locals, history>>

NoFiles == <<>>
NoCall == [remote |-> NoFiles, raised |-> FALSE, service_failed |-> FALSE,
           mutations |-> 0, ret |-> FALSE, called |-> FALSE]
NoFailure == [failed |-> FALSE, merged |-> {}, assignments |-> <<>>]

\* a remote document this program did not write
OldContent == [category |-> Bogus, repos |-> <<>>]
StalePath == <<"z", "z">> \o MdExt
NotesPath == <<"n">>

\* ----------------------------------------------------------------- main()
\* line 288 with "and" for "or"
BothCredentialsMissing(token, key) == ~token /\ ~key

\* line 288
CredentialsMissing(token, key) == ~token \/ ~key

\* lines 285-290
CheckCredentials ==
    /\ pc = "start"
    /\ pc' = IF CredentialsMissing(github_token, anthropic_api_key)
             THEN "done" ELSE "download"
    /\ UNCHANGED <<runs, persisted, environment, locals, history>>

\* download_starred_repos saving what it has when the fetch fails
DownloadSavingOnFailure ==
    /\ pc = "download"
    /\ \/ /\ starred_repos' = github_stars
          /\ starred_file' = [exists |-> TRUE, repos |-> github_stars]
          /\ events' = events \cup {"hosting_api", "snapshot_written"}
       \/ /\ starred_repos' = {}
          /\ starred_file' = [exists |-> TRUE, repos |-> {}]
          /\ events' = events \cup {"hosting_api", "fetch_failed", "snapshot_written"}
    /\ pc' = "reconcile"
    /\ UNCHANGED <<runs, mapping_file, remote, environment,
                   repo_category_mapping, removed_repos, repos_list, i, batch,
                   new_mappings, warnings, changes_made, model_calls, ugl,
                   ugl_before, run_start, at_failure>>

\* line 293, download_starred_repos: the snapshot is saved and returned, or
\* an exception ends the fetch and {} is returned
DownloadStarredRepos ==
    /\ pc = "download"
    /\ \/ /\ starred_repos' = github_stars
          /\ starred_file' = [exists |-> TRUE, repos |-> github_stars]
          /\ events' = events \cup {"hosting_api", "snapshot_written"}
       \/ /\ starred_repos' = {}
          /\ starred_file' = starred_file
          /\ events' = events \cup {"hosting_api", "fetch_failed"}
    /\ pc' = "reconcile"
    /\ UNCHANGED <<runs, mapping_file, remote, environment,
                   repo_category_mapping, removed_repos, repos_list, i, batch,
                   new_mappings, warnings, changes_made, model_calls, ugl,
                   ugl_before, run_start, at_failure>>

\* the keys of a set of repositories in iteration order
Least(S) == CHOOSE r \in S : \A q \in S : r <= q

RECURSIVE Ascending(_)
Ascending(S) ==
    IF S = {} THEN <<>>
    ELSE <<Least(S)>> \o Ascending(S \ {Least(S)})

\* line 311 without the removed repositories
ChangesOnlyWhenNew(to_process, removed) == Len(to_process) > 0

\* line 311
ChangesMade(to_process, removed) == Len(to_process) > 0 \/ Len(removed) > 0

\* lines 296-311: load the files, remove_unstarred_repos, repos_to_process
Reconciled(r) ==
    /\ repo_category_mapping' = r.mapping
    /\ removed_repos' \in ListsOf(r.unstarred_repos)
    /\ repos_list' = Ascending(starred_repos \ DOMAIN r.mapping)
    /\ changes_made' = ChangesMade(repos_list', removed_repos')
    /\ pc' = IF repos_list' # <<>> THEN "classify" ELSE "finish"

Reconcile ==
    /\ pc = "reconcile"
    /\ Reconciled(remove_unstarred_repos(starred_repos, mapping_file))
    /\ i' = 0
    /\ UNCHANGED <<runs, persisted, environment, starred_repos, batch,
                   new_mappings, warnings, history>>

\* line 315; scaled down from the program's 50
batch_size == 1

Min(a, b) == IF a < b THEN a ELSE b

\* repos_list[i:i+batch_size]
Slice(list, from) == SubSeq(list, from + 1, Min(from + batch_size, Len(list)))

\* lines 324-325
Merge(mapping, new) ==
    [k \in DOMAIN mapping \cup DOMAIN new |->
        IF k \in DOMAIN new THEN new[k] ELSE mapping[k]]

\* lines 318-327: one turn of the loop over the batches
ClassifyBatch ==
    /\ pc = "classify"
    /\ \E reply \in Replies(platform, categories) :
          /\ batch' = Slice(repos_list, i)
          /\ new_mappings' = organize_repos_with_claude(reply, categories)
          /\ warnings' = Logged(reply, categories)
          /\ repo_category_mapping' = Merge(repo_category_mapping, new_mappings')
          /\ at_failure' =
                IF at_failure.failed THEN at_failure
                ELSE IF ~reply.ok
                THEN [failed |-> TRUE, merged |-> at_failure.merged,
                      assignments |-> [k \in at_failure.merged |->
                                          repo_category_mapping[k]]]
                ELSE [at_failure EXCEPT !.merged = @ \cup DOMAIN new_mappings']
    /\ model_calls' = Append(model_calls, batch')
    /\ i' = i + batch_size
    /\ pc' = IF i' < Len(repos_list) THEN "classify" ELSE "finish"
    /\ events' = events \cup {"model_api"} \cup warnings'
    /\ UNCHANGED <<runs, persisted, environment, starred_repos, removed_repos,
                   repos_list, changes_made, ugl, ugl_before, run_start>>

\* lines 329-331 and 340-341
SaveMapping ==
    /\ pc = "finish"
    /\ IF changes_made
       THEN /\ mapping_file' = repo_category_mapping
            /\ events' = events \cup {"mapping_written"}
            /\ pc' = "publish"
       ELSE /\ UNCHANGED <<mapping_file, events>>
            /\ pc' = "done"
    /\ UNCHANGED <<runs, starred_file, remote, environment, locals, model_calls,
                   ugl, ugl_before, run_start, at_failure>>

RemoteEvents(call) == IF call.mutations > 0 THEN {"remote_written"} ELSE {}
LocalEvents(call) == IF call.local # NoFiles THEN {"local_written"} ELSE {}

\* what is kept of a call for the record
Record(call) ==
    [remote |-> call.remote, raised |-> call.raised,
     service_failed |-> call.service_failed, mutations |-> call.mutations,
     ret |-> call.ret, called |-> TRUE]

ListsPublished(call) ==
    /\ ugl' = Record(call)
    /\ remote' = call.remote
    /\ events' = events \cup {"hosting_api", "update_github_lists"}
                    \cup RemoteEvents(call) \cup LocalEvents(call)

\* line 334
PublishLists ==
    /\ pc = "publish"
    /\ \E failAt \in 0..MaxFailAt, listing \in Listings(remote) :
          ListsPublished(update_github_lists(remote, categories, starred_repos,
                                             repo_category_mapping, listing, failAt))
    /\ pc' = "readme"
    /\ UNCHANGED <<runs, mapping_file, starred_file, environment, locals,
                   model_calls, ugl_before, run_start, at_failure>>

ReadmeUpdated(call) ==
    /\ remote' = call.remote
    /\ events' = events \cup {"hosting_api", "update_readme"}
                    \cup (IF call.mutations > 0 THEN {"readme_remote"} ELSE {})
                    \cup (IF call.local # NoFiles THEN {"readme_local"} ELSE {})
                    \cup RemoteEvents(call) \cup LocalEvents(call)

\* line 338
UpdateReadme ==
    /\ pc = "readme"
    /\ \E failAt \in 0..MaxFailAt :
          ReadmeUpdated(update_readme(remote, starred_repos, repo_category_mapping,
                                      failAt))
    /\ pc' = "done"
    /\ UNCHANGED <<runs, mapping_file, starred_file, environment, locals,
                   model_calls, ugl, ugl_before, run_start, at_failure>>

\* the persisted mappings a run can find: repositories of any kind, each
\* with a list the program could have stored
StoredMappings(cats) ==
    UNION {[S -> {<<cats[1]>>}] : S \in SUBSET Repos}

FilesNow ==
    [mapping_file |-> mapping_file, starred_file |-> starred_file, remote |-> remote]

Idle ==
    /\ starred_repos = {}
    /\ repo_category_mapping = <<>>
    /\ removed_repos = <<>>
    /\ repos_list = <<>>
    /\ i = 0
    /\ batch = <<>>
    /\ new_mappings = <<>>
    /\ warnings = {}
    /\ changes_made = FALSE
    /\ model_calls = <<>>
    /\ ugl = NoCall
    /\ ugl_before = NoCall
    /\ events = {}
    /\ run_start = FilesNow
    /\ at_failure = NoFailure

Init ==
    /\ pc = "start"
    /\ runs = 1
    /\ github_token \in BOOLEAN
    /\ anthropic_api_key \in BOOLEAN
    /\ platform = Repos
    /\ github_stars \in SUBSET platform
    /\ categories = <<CatWeb, CatAB>>
    /\ mapping_file \in StoredMappings(categories)
    /\ starred_file = [exists |-> FALSE, repos |-> {}]
    /\ remote \in {NoFiles,
                    [p \in {FileName(categories[1]), ReadmePath, NotesPath}
                        |-> OldContent]}
    /\ Idle

Next ==
    \/ CheckCredentials
    \/ DownloadStarredRepos
    \/ Reconcile
    \/ ClassifyBatch
    \/ SaveMapping
    \/ PublishLists
    \/ UpdateReadme

Spec == Init /\ [][Next]_vars

\* ------------------------------------------------------- run after run
\* The process ends; the next run starts with the files the last one left,
\* and with whatever the user has starred by then.
NextRun ==
    /\ pc = "done"
    /\ runs < MaxRuns
    /\ runs' = runs + 1
    /\ pc' = "start"
    /\ github_token' \in BOOLEAN
    /\ anthropic_api_key' \in BOOLEAN
    /\ github_stars' \in SUBSET platform
    /\ starred_repos' = {}
    /\ repo_category_mapping' = <<>>
    /\ removed_repos' = <<>>
    /\ repos_list' = <<>>
    /\ i' = 0
    /\ batch' = <<>>
    /\ new_mappings' = <<>>
    /\ warnings' = {}
    /\ changes_made' = FALSE
    /\ model_calls' = <<>>
    /\ ugl' = NoCall
    /\ ugl_before' = NoCall
    /\ events' = {}
    /\ run_start' = FilesNow
    /\ at_failure' = NoFailure
    /\ UNCHANGED <<persisted, platform, categories>>

InitFresh ==
    /\ pc = "start"
    /\ runs = 1
    /\ github_token \in BOOLEAN
    /\ anthropic_api_key \in BOOLEAN
    /\ platform = 1..MaxFreshRepos
    /\ github_stars \in SUBSET platform
    /\ categories = <<CatWeb, CatAB>>
    /\ mapping_file = <<>>
    /\ starred_file = [exists |-> FALSE, repos |-> {}]
    /\ remote = NoFiles
    /\ Idle

NextRuns ==
    \/ CheckCredentials
    \/ DownloadStarredRepos
    \/ Reconcile
    \/ ClassifyBatch
    \/ SaveMapping
    \/ PublishLists
    \/ UpdateReadme
    \/ NextRun

SpecFresh == InitFresh /\ [][NextRuns]_vars

\* ------------------------------------------- the publish step on its own
\* update_github_lists applied twice to the same catalog, snapshot and
\* assignment mapping, the remote repository untouched in between.
PublishedLists(cats) == {<<cats[1]>>, <<cats[2]>>, <<Other>>}

InitPublish ==
    /\ pc = "publish_ready"
    /\ runs = 1
    /\ github_token = TRUE
    /\ anthropic_api_key = TRUE
    /\ platform = Repos
    /\ categories \in Catalogs
    /\ starred_repos \in SUBSET Repos
    /\ github_stars = starred_repos
    /\ repo_category_mapping \in
          UNION {[S -> PublishedLists(categories)] : S \in SUBSET starred_repos}
    /\ mapping_file = repo_category_mapping
    /\ starred_file = [exists |-> TRUE, repos |-> starred_repos]
    /\ remote \in UNION {[F -> {OldContent}] :
              F \in SUBSET {FileName(categories[1]), FileName(categories[2]),
                            StalePath}}
    /\ removed_repos = <<>>
    /\ repos_list = <<>>
    /\ i = 0
    /\ batch = <<>>
    /\ new_mappings = <<>>
    /\ warnings = {}
    /\ changes_made = TRUE
    /\ model_calls = <<>>
    /\ ugl = NoCall
    /\ ugl_before = NoCall
    /\ events = {}
    /\ run_start = FilesNow
    /\ at_failure = NoFailure

Published(call) ==
    /\ ugl' = Record(call)
    /\ remote' = call.remote

RunPublish ==
    /\ pc \in {"publish_ready", "published_once"}
    /\ \E failAt \in 0..MaxFailAt, listing \in Listings(remote) :
          Published(update_github_lists(remote, categories, starred_repos,
                                        repo_category_mapping, listing, failAt))
    /\ ugl_before' = ugl
    /\ pc' = IF pc = "publish_ready" THEN "published_once" ELSE "published_twice"
    /\ UNCHANGED <<runs, mapping_file, starred_file, environment, locals,
                   model_calls, events, run_start, at_failure>>

SpecPublish == InitPublish /\ [][RunPublish]_vars

\* ------------------------------------------------------------------ claims
ValidCategories == Range(categories) \cup {Other}

AllValid(mapping) ==
    \A k \in DOMAIN mapping : \A n \in DOMAIN mapping[k] :
        mapping[k][n] \in ValidCategories

JustReconciled == pc \in {"classify", "finish"} /\ model_calls = <<>>

\* C1: when remove_unstarred_repos(S, M) has returned, every key of M is a
\* key of S, every entry of the loaded M whose key is in S is unchanged, and
\* the returned list holds exactly the keys that were in M and not in S,
\* each once.
C1_Reconciliation ==
    JustReconciled =>
        /\ DOMAIN repo_category_mapping \subseteq starred_repos
        /\ \A k \in DOMAIN mapping_file \cap starred_repos :
              /\ k \in DOMAIN repo_category_mapping
              /\ repo_category_mapping[k] = mapping_file[k]
        /\ Range(removed_repos) = DOMAIN mapping_file \ starred_repos
        /\ Len(removed_repos) = Cardinality(DOMAIN mapping_file \ starred_repos)

C1_Witness ==
    /\ JustReconciled
    /\ Len(removed_repos) = 2
    /\ repo_category_mapping # <<>>

\* C2: from an empty persisted mapping, run after run and whatever the
\* model answers, every category name in the assignment mapping (loaded,
\* merged or saved) is a catalog key or "Other"; a call that met a row with
\* another category has put "Other" in what it returned.
C2_StoredCategoriesValid ==
    /\ AllValid(mapping_file)
    /\ AllValid(repo_category_mapping)
    /\ AllValid(new_mappings)
    /\ "invalid_category" \in warnings =>
          \E k \in DOMAIN new_mappings : Other \in Range(new_mappings[k])

C2_Witness ==
    /\ runs = 2
    /\ pc = "done"
    /\ "invalid_category" \in events
    /\ \E k \in DOMAIN mapping_file : mapping_file[k] = <<Other>>
    /\ \E k \in DOMAIN mapping_file : mapping_file[k] = <<CatWeb>>

\* C3: the mapping the classifier returns for a batch has only
\* repositories of that batch as keys (so the merge touches no entry of a
\* repository outside the batch, nor of one absent from the snapshot).
C3_OnlyBatchKeys ==
    /\ DOMAIN new_mappings \subseteq Range(batch)
    /\ DOMAIN new_mappings \subseteq starred_repos

CollisionFree ==
    \A a, b \in DOMAIN categories :
        a # b => FileName(categories[a]) # FileName(categories[b])

ListingDocuments ==
    {p \in DOMAIN remote : EndsWithMd(p) /\ p # ReadmePath}

\* C4: the second of two publish steps on the same catalog, snapshot and
\* mapping creates, updates and deletes no category document, whatever
\* markdown files the remote repository held at first.  (Stated for the
\* case that favours the claim: the service fails in neither call and no
\* two categories share a file name.)
C4_SecondPublishIdle ==
    (/\ pc = "published_twice"
     /\ ~ugl_before.service_failed
     /\ ~ugl.service_failed
     /\ CollisionFree)
        => ugl.mutations = 0

\* C5: after update_github_lists has run without a failure of the service,
\* the remote listing documents are exactly the files of the catalog
\* categories that have a repository.  (Again for catalogs without two
\* categories of one file name.)
C5_OnlyLiveDocuments ==
    (/\ pc = "published_once"
     /\ ~ugl.service_failed
     /\ CollisionFree)
        => ListingDocuments =
              {FileName(categories[k]) : k \in
                  {n \in DOMAIN categories :
                      CategoryRepos(categories[n], repo_category_mapping, 1) # <<>>}}

\* C6: update_github_lists returns true exactly when the call has created,
\* updated or deleted a remote file, a call that stopped early included.
C6_ReturnsWhetherMutated ==
    ugl.called => (ugl.ret <=> ugl.mutations > 0)

Ceil(n, d) == (n + d - 1) \div d

RECURSIVE Concat(_)
Concat(seqs) == IF seqs = <<>> THEN <<>> ELSE Head(seqs) \o Concat(Tail(seqs))

MappingSaved == pc \in {"publish", "readme", "done"} /\ "mapping_written" \in events

\* C7: n uncategorized repositories go to the model in ceil(n/batch_size)
\* calls, on disjoint batches of at most batch_size that cover them; when
\* a call has failed, the later batches are still sent, and the
\* assignments merged before the failure are in the mapping the run saves.
C7_BatchesAndPartialProgress ==
    MappingSaved =>
        /\ Len(model_calls) = Ceil(Len(repos_list), batch_size)
        /\ \A n \in DOMAIN model_calls : Len(model_calls[n]) \in 1..batch_size
        /\ Concat(model_calls) = repos_list
        /\ at_failure.failed =>
              \A k \in DOMAIN at_failure.assignments :
                  /\ k \in DOMAIN mapping_file
                  /\ mapping_file[k] = at_failure.assignments[k]

CredentialsPresent == github_token /\ anthropic_api_key

PublishSteps == {"mapping_written", "update_github_lists", "update_readme"}

\* C8 as stated: every run that passes the credential check reaches the
\* publish step, a run with nothing added, removed or left to classify too.
C8_EveryRunPublishes ==
    (pc = "done" /\ CredentialsPresent)
        => {"update_github_lists", "update_readme"} \subseteq events

\* C8 as amended: a run that passes the credential check saves the mapping
\* and calls update_github_lists and update_readme exactly when a
\* repository is left to classify or an assignment was removed, that is
\* when the assigned repositories it found are not the snapshot's; otherwise
\* it saves, regenerates and rewrites nothing.
C8_PublishesIffChanged ==
    (pc = "done" /\ CredentialsPresent)
        => IF DOMAIN run_start.mapping_file # starred_repos
           THEN PublishSteps \subseteq events
           ELSE /\ events \cap (PublishSteps \cup {"remote_written", "local_written"}) = {}
                /\ remote = run_start.remote
                /\ mapping_file = run_start.mapping_file

C8_Witness ==
    /\ pc = "done"
    /\ CredentialsPresent
    /\ starred_repos # {}
    /\ DOMAIN run_start.mapping_file = starred_repos
    /\ "snapshot_written" \in events
    /\ "update_github_lists" \notin events

\* C9: with the token or the API key missing, main() stops before any call
\* to the hosting platform or the model and before any write to a
\* persisted file or a remote document.
C9_NoEffectWithoutCredentials ==
    ~CredentialsPresent =>
        /\ pc \in {"start", "done"}
        /\ events = {}
        /\ FilesNow = run_start

C9_Witness ==
    /\ pc = "done"
    /\ github_token
    /\ ~anthropic_api_key
    /\ github_stars # {}
    /\ mapping_file # <<>>

FetchFailed == "fetch_failed" \in events /\ run_start.mapping_file # <<>>

\* C10: when the fetch of the starred repositories fails and the persisted
\* mapping is not empty, the snapshot file is not written, reconciliation
\* removes every assignment, no classification call is made, and the run
\* saves an empty mapping and runs the publish step on it.
C10_FailedFetchEmptiesMapping ==
    /\ FetchFailed =>
          /\ "snapshot_written" \notin events
          /\ starred_file = run_start.starred_file
          /\ "model_api" \notin events
    /\ (FetchFailed /\ pc \notin {"download", "reconcile"}) =>
          /\ Range(removed_repos) = DOMAIN run_start.mapping_file
          /\ repo_category_mapping = <<>>
    /\ (FetchFailed /\ pc = "done") =>
          /\ mapping_file = <<>>
          /\ PublishSteps \subseteq events

C10_Witness ==
    /\ FetchFailed
    /\ pc = "done"
    /\ Len(removed_repos) = 2
    /\ ListingDocuments = {}
    /\ run_start.remote # NoFiles

====
